---- MODULE Spec2Model ----
(***************************************************************************)
(* A model of GeminiCarLookupService (src/gemini_car_lookup.py): the       *)
(* lookup call with its grounding fallback, the response normalizer, the   *)
(* match builder and the vehicle-name expander.                            *)
(*                                                                         *)
(* Encoding of Python values:                                              *)
(*   - Optional[X]: the empty set is None, {x} is the value x;             *)
(*   - a str that the code inspects character by character (model code,    *)
(*     vehicle name) is a sequence of one-character strings;               *)
(*   - a URL is a TLA+ string, "" being the empty (falsy) string;          *)
(*   - a dict is a record over the keys the code reads.                    *)
(***************************************************************************)
EXTENDS Integers, Sequences, FiniteSets, TLC

VARIABLES
    config,                  \* the service's construction-time fields
    tools,                   \* self.tools
    uses_search_retrieval,   \* self._uses_search_retrieval
    pc,                      \* per call slot: position of the lookup call
    call,                    \* per call slot: the call's local variables
    requests,                \* per call slot: payloads posted by the current call
    fallback_done,           \* history: some fallback retry has returned 200
    fn_in,                   \* input of the pure function under study
    fn_out                   \* its output (<<>> until applied)

vars == <<config, tools, uses_search_retrieval, pc, call, requests,
          fallback_done, fn_in, fn_out>>

----------------------------------------------------------------------------
(* Bounds *)

MaxNameLen == 4      \* longest vehicle_name explored by the expander
MaxMatches == 2      \* longest match list given to the expander
MaxExtra == 2        \* longest per-vehicle `sources` list
MaxChunks == 2       \* longest groundingChunks list
MaxTenths == 25      \* largest displacement_cc explored, in tenths and as digits
MaxElems == 3        \* longest array in a parsed JSON value

----------------------------------------------------------------------------
(* Python values *)

None == {}
Some(x) == {x}
Value(o) == CHOOSE x \in o : TRUE

\* Python truthiness of an Optional[str] held as a character sequence.
Truthy(o) == o # None /\ o # Some(<<>>)

\* Python's `a or b`.
Or(a, b) == IF Truthy(a) THEN a ELSE b

Space == " "
Slash == "/"
FullWidthSlash == "FW/"

RECURSIVE LStrip(_)
LStrip(s) ==
    IF s # <<>> /\ Head(s) = Space THEN LStrip(Tail(s)) ELSE s

RECURSIVE RStrip(_)
RStrip(s) ==
    IF s # <<>> /\ s[Len(s)] = Space THEN RStrip(SubSeq(s, 1, Len(s) - 1)) ELSE s

\* str.strip()
Strip(s) == RStrip(LStrip(s))

\* `delimiter in name`
Contains(s, c) == \E i \in 1..Len(s) : s[i] = c

\* str.split(delimiter) for a one-character delimiter: the pieces between
\* the delimiters, empty pieces included.
RECURSIVE SplitFrom(_, _, _)
SplitFrom(s, c, cur) ==
    IF s = <<>> THEN <<cur>>
    ELSE IF Head(s) = c THEN <<cur>> \o SplitFrom(Tail(s), c, <<>>)
    ELSE SplitFrom(Tail(s), c, Append(cur, Head(s)))

Split(s, c) == SplitFrom(s, c, <<>>)

\* [part.strip() for part in pieces if part.strip()]
RECURSIVE StripNonEmpty(_)
StripNonEmpty(pieces) ==
    IF pieces = <<>> THEN <<>>
    ELSE IF Strip(Head(pieces)) = <<>> THEN StripNonEmpty(Tail(pieces))
    ELSE <<Strip(Head(pieces))>> \o StripNonEmpty(Tail(pieces))

AllSeqs(S, n) == UNION {[1..k -> S] : k \in 0..n}

----------------------------------------------------------------------------
(* VehicleMatch and the raw vehicle objects *)

\* str.lower() on the confidence values the model uses.
Lower(c) ==
    CASE c = "High" -> "high"
      [] c = "LOW" -> "low"
      [] OTHER -> c

\* Remove duplicates while preserving order (first occurrence kept).
RECURSIVE DedupInto(_, _)
DedupInto(urls, acc) ==
    IF urls = <<>> THEN acc
    ELSE IF \E i \in 1..Len(acc) : acc[i] = Head(urls)
         THEN DedupInto(Tail(urls), acc)
         ELSE DedupInto(Tail(urls), Append(acc, Head(urls)))

\* web.get("uri") or web.get("url"); "" stands for a missing or falsy value.
\* A grounding entry that is not a dict contributes nothing, like an entry
\* with neither field.
WebUrl(web) == IF web.uri # "" THEN web.uri ELSE web.url

RECURSIVE WebUrls(_)
WebUrls(webs) ==
    IF webs = <<>> THEN <<>>
    ELSE (IF WebUrl(Head(webs)) # "" THEN <<WebUrl(Head(webs))>> ELSE <<>>)
             \o WebUrls(Tail(webs))

RECURSIVE SupportUrls(_)
SupportUrls(supports) ==
    IF supports = <<>> THEN <<>>
    ELSE WebUrls(Head(supports)) \o SupportUrls(Tail(supports))

RECURSIVE CitationUrls(_)
CitationUrls(citations) ==
    IF citations = <<>> THEN <<>>
    ELSE (IF Head(citations) # "" THEN <<Head(citations)>> ELSE <<>>)
             \o CitationUrls(Tail(citations))

\* _extract_grounded_sources
ExtractGroundedSources(metadata) ==
    DedupInto(WebUrls(metadata.groundingChunks)
                  \o SupportUrls(metadata.groundingSupports)
                  \o CitationUrls(metadata.citations), <<>>)

\* Mutant of the loop over item["sources"]: the membership test is dropped.
RECURSIVE AppendExtraUnchecked(_, _)
AppendExtraUnchecked(sources, extra) ==
    IF extra = <<>> THEN sources
    ELSE IF Head(extra).str
         THEN AppendExtraUnchecked(Append(sources, Head(extra).v), Tail(extra))
         ELSE AppendExtraUnchecked(sources, Tail(extra))

\* The loop over item["sources"] in _build_match.
RECURSIVE AppendExtra(_, _)
AppendExtra(sources, extra) ==
    IF extra = <<>> THEN sources
    ELSE IF Head(extra).str /\ ~ \E i \in 1..Len(sources) : sources[i] = Head(extra).v
         THEN AppendExtra(Append(sources, Head(extra).v), Tail(extra))
         ELSE AppendExtra(sources, Tail(extra))

\* int(x) of a number held in tenths: truncation toward zero.
Trunc(n) == IF n >= 0 THEN n \div 10 ELSE -((-n) \div 10)

\* The displacement_cc coercion of _build_match. A raw displacement is
\* [kind, n]:
\*   "digits"      a str of decimal digits, of value n;
\*   "superscript" a str such as "²": str.isdigit() accepts it, int() does not;
\*   "text"        any other str;
\*   "number"      a finite int or float of n tenths;
\*   "bool"        true or false (n = 1 or 0), an int for isinstance;
\*   "nan", "infinity"  the floats json.loads gives for NaN and for 1e400;
\*   "none"        a missing key or null;  "other"  a list or an object.
\* CoerceDisplacement is the value when int() does not raise.
CoerceDisplacement(d) ==
    CASE d.kind = "digits" -> Some(d.n)
      [] d.kind = "number" -> Some(Trunc(d.n))
      [] d.kind = "bool" -> Some(d.n)
      [] OTHER -> None

\* The exception int() raises in the coercion, "" when it raises none.
DisplacementError(d) ==
    CASE d.kind = "superscript" -> "ValueError"
      [] d.kind = "nan" -> "ValueError"
      [] d.kind = "infinity" -> "OverflowError"
      [] OTHER -> ""

\* _build_match
BuildMatch(item, default_sources) ==
    [manufacturer |-> item.manufacturer,
     vehicle_name |-> Or(Or(item.vehicle_name, item.car_name), item.model),
     displacement_cc |-> CoerceDisplacement(item.displacement_cc),
     grade_or_variant |-> item.grade_or_variant,
     years |-> item.years,
     confidence |-> IF item.confidence # None /\ item.confidence # Some("")
                    THEN Some(Lower(Value(item.confidence)))
                    ELSE item.confidence,
     notes |-> item.notes,
     sources |-> IF item.sources.isList
                 THEN AppendExtra(default_sources, item.sources.elems)
                 ELSE default_sources]

\* _build_match as a call: the exception it raises ("" for none) and the
\* VehicleMatch it returns otherwise.
BuildMatchOutcome(item, default_sources) ==
    [raised |-> DisplacementError(item.displacement_cc),
     match |-> BuildMatch(item, default_sources)]

----------------------------------------------------------------------------
(* Name expansion *)

\* The parts computed for one delimiter in _split_vehicle_name.
PartsFor(name, delimiter) == StripNonEmpty(Split(name, delimiter))

\* Mutant of _split_vehicle_name: the full-width delimiter is forgotten.
SplitVehicleNameAsciiOnly(name) ==
    IF name = <<>> THEN <<>>
    ELSE IF Contains(name, Slash) /\ Len(PartsFor(name, Slash)) > 1
         THEN PartsFor(name, Slash)
    ELSE <<name>>

\* _split_vehicle_name
SplitVehicleName(name) ==
    IF name = <<>> THEN <<>>
    ELSE IF Contains(name, Slash) /\ Len(PartsFor(name, Slash)) > 1
         THEN PartsFor(name, Slash)
    ELSE IF Contains(name, FullWidthSlash) /\ Len(PartsFor(name, FullWidthSlash)) > 1
         THEN PartsFor(name, FullWidthSlash)
    ELSE <<name>>

\* [replace(match, vehicle_name=split_name) for split_name in split_names]
RECURSIVE Replaced(_, _)
Replaced(match, split_names) ==
    IF split_names = <<>> THEN <<>>
    ELSE <<[match EXCEPT !.vehicle_name = Some(Head(split_names))]>>
             \o Replaced(match, Tail(split_names))

\* One iteration of the loop of _expand_vehicle_names.
ExpandOne(match) ==
    LET name == Strip(IF Truthy(match.vehicle_name)
                      THEN Value(match.vehicle_name) ELSE <<>>)
        split_names == SplitVehicleName(name)
    IN  IF name = <<>> THEN <<match>>
        ELSE IF Len(split_names) <= 1 THEN <<match>>
        ELSE Replaced(match, split_names)

\* _expand_vehicle_names
RECURSIVE ExpandVehicleNames(_)
ExpandVehicleNames(matches) ==
    IF matches = <<>> THEN <<>>
    ELSE ExpandOne(Head(matches)) \o ExpandVehicleNames(Tail(matches))

----------------------------------------------------------------------------
(* Response normalizer *)

\* A parsed JSON value, by top-level shape: "vehicles" is an object whose
\* `vehicles` key holds a list (items), "object" any other object (self is
\* the object read as a vehicle), "array" a bare list (items), "scalar" a
\* string, number or boolean, "null" the JSON null (Python None).
\* A list element is [isDict, item].

\* Text is a sequence of tokens [t, v]: t = "json" is one well-formed JSON
\* value v, "fence" the ``` marker, "lang" the word json, "prose" anything
\* that starts no JSON value. White space between tokens is not kept, so
\* strip() and the "\n" that joins text parts leave a token sequence as is.
IsFence(tok) == tok.t = "fence"

\* parts = stripped.split("```"), as a sequence of token sequences
RECURSIVE SplitFence(_, _)
SplitFence(text, cur) ==
    IF text = <<>> THEN <<cur>>
    ELSE IF IsFence(Head(text)) THEN <<cur>> \o SplitFence(Tail(text), <<>>)
    ELSE SplitFence(Tail(text), Append(cur, Head(text)))

\* _strip_code_fence
StripCodeFence(text) ==
    IF text = <<>> \/ ~IsFence(Head(text)) THEN text
    ELSE LET parts == SplitFence(text, <<>>)
             inner == parts[2]
         IN  IF inner # <<>> /\ Head(inner).t = "lang" THEN Tail(inner) ELSE inner

\* _load_structured_payload: json.loads accepts exactly one JSON value;
\* raw_decode accepts a leading JSON value and ignores what follows.
LoadStructuredPayload(text) ==
    LET cleaned == StripCodeFence(text)
    IN  IF Len(cleaned) = 1 /\ cleaned[1].t = "json"
        THEN [ok |-> TRUE, value |-> Some(cleaned[1].v)]
        ELSE IF cleaned # <<>> /\ cleaned[1].t = "json"
        THEN [ok |-> TRUE, value |-> Some(cleaned[1].v)]
        ELSE [ok |-> FALSE, value |-> None]

\* _collect_text_parts
RECURSIVE CollectTextParts(_)
CollectTextParts(parts) ==
    IF parts = <<>> THEN <<>>
    ELSE Head(parts).text \o CollectTextParts(Tail(parts))

\* The vehicle read from a struct_value dict that has no `fields` dict: none
\* of the keys _build_match reads is present.
EmptyItem ==
    [manufacturer |-> None, vehicle_name |-> None, car_name |-> None,
     model |-> None, displacement_cc |-> [kind |-> "none", n |-> 0],
     grade_or_variant |-> None, years |-> None, confidence |-> None,
     notes |-> None, sources |-> [isList |-> FALSE, elems |-> <<>>]]

\* _convert_struct_value: a struct value is [hasFields, obj], obj the object
\* its tagged fields unwrap to.
ConvertStructValue(struct_value) ==
    IF struct_value.hasFields THEN struct_value.obj
    ELSE [shape |-> "object", items |-> <<>>, self |-> EmptyItem]

\* _extract_structured_candidate: None when no part has a structured key,
\* and also when the first such part holds jsonValue: null.
RECURSIVE ExtractStructuredCandidate(_)
ExtractStructuredCandidate(parts) ==
    IF parts = <<>> THEN None
    ELSE IF Head(parts).structValue # None
         THEN Some(ConvertStructValue(Value(Head(parts).structValue)))
    ELSE IF Head(parts).jsonValue # None
         THEN (IF Value(Head(parts).jsonValue).shape = "null" THEN None
               ELSE Head(parts).jsonValue)
    ELSE ExtractStructuredCandidate(Tail(parts))

\* [item for item in xs if isinstance(item, dict)]
RECURSIVE DictItems(_)
DictItems(elems) ==
    IF elems = <<>> THEN <<>>
    ELSE (IF Head(elems).isDict THEN <<Head(elems).item>> ELSE <<>>)
             \o DictItems(Tail(elems))

\* Mutant of the shape normalization: any other shape gives an empty list.
ExtractVehiclePayloadsLenient(structured) ==
    CASE structured.shape = "vehicles" ->
             [ok |-> TRUE, items |-> DictItems(structured.items)]
      [] structured.shape = "object" ->
             [ok |-> TRUE, items |-> <<structured.self>>]
      [] structured.shape = "array" ->
             [ok |-> TRUE, items |-> DictItems(structured.items)]
      [] OTHER -> [ok |-> TRUE, items |-> <<>>]

\* _extract_vehicle_payloads
ExtractVehiclePayloads(structured) ==
    CASE structured.shape = "vehicles" ->
             [ok |-> TRUE, items |-> DictItems(structured.items)]
      [] structured.shape = "object" ->
             [ok |-> TRUE, items |-> <<structured.self>>]
      [] structured.shape = "array" ->
             [ok |-> TRUE, items |-> DictItems(structured.items)]
      [] OTHER -> [ok |-> FALSE, items |-> <<>>]

\* The loop `matches.append(self._build_match(item, sources))`
RECURSIVE BuildMatches(_, _)
BuildMatches(items, sources) ==
    IF items = <<>> THEN <<>>
    ELSE <<BuildMatch(Head(items), sources)>> \o BuildMatches(Tail(items), sources)

\* The exception the loop over the vehicle payloads stops with, "" for none.
RECURSIVE BuildError(_, _)
BuildError(items, sources) ==
    IF items = <<>> THEN ""
    ELSE IF BuildMatchOutcome(Head(items), sources).raised # ""
         THEN BuildMatchOutcome(Head(items), sources).raised
    ELSE BuildError(Tail(items), sources)

NoDataNote == "No grounded data found for model code"

\* The synthesized match of _parse_matches.
Placeholder(model_code, sources) ==
    [manufacturer |-> None, vehicle_name |-> None, displacement_cc |-> None,
     grade_or_variant |-> None, years |-> None, confidence |-> Some("low"),
     notes |-> Some([text |-> NoDataNote, code |-> model_code]),
     sources |-> sources]

\* Mutants of the empty-result policy.
WithPlaceholderNever(matches, model_code, sources) == matches

WithPlaceholderNoSources(matches, model_code, sources) ==
    IF matches = <<>> THEN <<Placeholder(model_code, <<>>)>> ELSE matches

\* `if not matches: matches.append(VehicleMatch(...))`
WithPlaceholder(matches, model_code, sources) ==
    IF matches = <<>> THEN <<Placeholder(model_code, sources)>> ELSE matches

Failure(msg) == [error |-> msg, matches |-> <<>>, sources |-> <<>>]

\* _parse_matches up to `matches = self._expand_vehicle_names(matches)`:
\* error is "" when no exception is raised, else the message raised.
BuildAndExpand(response) ==
    IF response.candidates = <<>> THEN Failure("Gemini returned no candidates")
    ELSE
    LET primary == response.candidates[1]
        direct == ExtractStructuredCandidate(primary.parts)
        response_text == CollectTextParts(primary.parts)
        loaded == LoadStructuredPayload(response_text)
    IN  IF direct = None /\ response_text = <<>>
        THEN Failure("Gemini candidate missing text content")
        ELSE IF direct = None /\ ~loaded.ok
        THEN Failure("Gemini response was not valid JSON")
        ELSE
        LET structured == IF direct = None THEN Value(loaded.value) ELSE Value(direct)
            vehicle_payloads == ExtractVehiclePayloads(structured)
            sources == ExtractGroundedSources(primary.groundingMetadata)
        IN  IF ~vehicle_payloads.ok
            THEN Failure("Unexpected JSON structure")
            ELSE IF BuildError(vehicle_payloads.items, sources) # ""
            THEN Failure(BuildError(vehicle_payloads.items, sources))
            ELSE [error |-> "",
                  matches |-> ExpandVehicleNames(
                                  BuildMatches(vehicle_payloads.items, sources)),
                  sources |-> sources]

\* _parse_matches
ParseMatches(response, model_code) ==
    LET built == BuildAndExpand(response)
    IN  IF built.error # "" THEN built
        ELSE [built EXCEPT !.matches = WithPlaceholder(@, model_code, built.sources)]

----------------------------------------------------------------------------
(* Service construction, payloads and the grounding fallback *)

\* A tool entry is [dict, keys]: whether it is a dict, and its keys (for an
\* entry that is no dict, the text it holds).
RetrievalTool == [dict |-> TRUE, keys |-> {"googleSearchRetrieval"}]
SearchTool == [dict |-> TRUE, keys |-> {"googleSearch"}]
CodeTool == [dict |-> TRUE, keys |-> {"codeExecution"}]
TextTool == [dict |-> FALSE, keys |-> {"googleSearchRetrieval"}]
BothTool == [dict |-> TRUE, keys |-> {"googleSearchRetrieval", "googleSearch"}]

\* any(isinstance(tool, dict) and "googleSearchRetrieval" in tool for tool in tools)
UsesSearchRetrieval(tool_list) ==
    \E i \in 1..Len(tool_list) :
        tool_list[i].dict /\ "googleSearchRetrieval" \in tool_list[i].keys

Is25(model_name) == model_name = "models/gemini-2.5-flash"

\* __init__: self.tools
InitialTools(tools_arg, model_name) ==
    IF tools_arg # None THEN Value(tools_arg)
    ELSE IF Is25(model_name) THEN <<RetrievalTool>> ELSE <<SearchTool>>

\* __init__: the other fields a call reads
InitialConfig(model_name, include_raw_response, allow_google_search_fallback) ==
    [model_name |-> model_name,
     include_raw_response |-> include_raw_response,
     allow_google_search_fallback |-> allow_google_search_fallback,
     response_mime_type |-> IF Is25(model_name) THEN None ELSE Some("application/json"),
     response_schema |-> IF Is25(model_name) THEN Some("DEFAULT_RESPONSE_SCHEMA") ELSE None]

\* _build_payload
BuildPayload(model_code, cfg, tool_list) ==
    [model_code |-> model_code,
     tools |-> tool_list,
     responseSchema |-> cfg.response_schema,
     responseMimeType |-> IF cfg.response_schema # None THEN None
                          ELSE cfg.response_mime_type]

\* A response body is a sequence of phrases; BodyLower is str.lower() on them.
BodyLower(phrase) ==
    CASE phrase = "Search Grounding is not supported" -> "search grounding is not supported"
      [] phrase = "groundingMode" -> "groundingmode"
      [] OTHER -> phrase

HasIndicator(response_body) ==
    \E i \in 1..Len(response_body) :
        BodyLower(response_body[i]) \in
            {"search grounding is not supported", "groundingmode"}

\* Mutants of _should_retry_without_grounding.
ShouldRetryAnyStatus(status_code, response_body, uses_retrieval) ==
    status_code # 200 /\ uses_retrieval /\ HasIndicator(response_body)

ShouldRetryAnyTool(status_code, response_body, uses_retrieval) ==
    status_code = 400 /\ HasIndicator(response_body)

\* _should_retry_without_grounding
ShouldRetryWithoutGrounding(status_code, response_body, uses_retrieval) ==
    IF status_code # 400 \/ ~uses_retrieval THEN FALSE
    ELSE HasIndicator(response_body)

\* The loop of _build_google_search_fallback over the payload's tools.
RECURSIVE KeepNonRetrieval(_)
KeepNonRetrieval(tool_list) ==
    IF tool_list = <<>> THEN <<>>
    ELSE (IF Head(tool_list).dict /\ "googleSearchRetrieval" \in Head(tool_list).keys
          THEN <<>> ELSE <<Head(tool_list)>>)
             \o KeepNonRetrieval(Tail(tool_list))

\* Mutant of the fallback builder: `sanitized = payload`, without the deepcopy.
BuildGoogleSearchFallbackInPlace(payload) ==
    LET kept == KeepNonRetrieval(payload.tools)
        has_google_search ==
            \E i \in 1..Len(kept) : kept[i].dict /\ "googleSearch" \in kept[i].keys
        fallback_tools == IF has_google_search THEN kept ELSE Append(kept, SearchTool)
    IN  [payload |-> [payload EXCEPT !.tools = fallback_tools],
         tools |-> fallback_tools,
         original |-> [payload EXCEPT !.tools = fallback_tools]]

\* _build_google_search_fallback: the sanitized payload, its tool list, and
\* the argument as the call leaves it (sanitized is a deepcopy of it, so
\* `sanitized["tools"] = fallback_tools` does not reach the argument).
BuildGoogleSearchFallback(payload) ==
    LET kept == KeepNonRetrieval(payload.tools)
        has_google_search ==
            \E i \in 1..Len(kept) : kept[i].dict /\ "googleSearch" \in kept[i].keys
        fallback_tools == IF has_google_search THEN kept ELSE Append(kept, SearchTool)
    IN  [payload |-> [payload EXCEPT !.tools = fallback_tools],
         tools |-> fallback_tools,
         original |-> payload]

\* Mutant of the branch taken on the first response.
FirstResponseStepIgnoringFlag(http, uses_retrieval, allow_fallback) ==
    IF http.transport_error THEN "raise_transport"
    ELSE IF http.status_code = 200 THEN "decode"
    ELSE IF ShouldRetryWithoutGrounding(http.status_code, http.text, uses_retrieval)
         THEN "fallback"
    ELSE "raise_error"

\* _call_api: the branch taken on the first response
FirstResponseStep(http, uses_retrieval, allow_fallback) ==
    IF http.transport_error THEN "raise_transport"
    ELSE IF http.status_code = 200 THEN "decode"
    ELSE IF ShouldRetryWithoutGrounding(http.status_code, http.text, uses_retrieval)
         THEN (IF allow_fallback THEN "fallback" ELSE "raise_rejected")
    ELSE "raise_error"

\* Mutants of the tool-list update after the fallback request.
ToolsAfterFallbackAlways(fallback_status, fallback_tools, current) == fallback_tools

ToolsAfterFallbackNever(fallback_status, fallback_tools, current) == current

\* _call_api: `if fallback_response.status_code == 200: self.tools = fallback_tools`
ToolsAfterFallback(fallback_status, fallback_tools, current) ==
    IF fallback_status = 200 THEN fallback_tools ELSE current

\* Mutant of the result assembly: usage metadata tied to the raw-response flag.
MakeResultUsageOnRequest(model_code, matches, response, include_raw_response) ==
    [model_code |-> model_code, matches |-> matches,
     raw_response |-> IF include_raw_response THEN Some(response) ELSE None,
     usage_metadata |-> IF include_raw_response THEN response.usageMetadata ELSE None]

\* lookup: the LookupResult it returns
MakeResult(model_code, matches, response, include_raw_response) ==
    [model_code |-> model_code, matches |-> matches,
     raw_response |-> IF include_raw_response THEN Some(response) ELSE None,
     usage_metadata |-> response.usageMetadata]

----------------------------------------------------------------------------
(* Inputs of the lookup specification: what callers pass and what the
   backend can answer *)

Url(u) == [str |-> TRUE, v |-> u]
NotAString == [str |-> FALSE, v |-> "42"]
SourceList(elems) == [isList |-> TRUE, elems |-> elems]
Note(text) == Some([text |-> text, code |-> <<>>])

ItemPlain ==
    [EmptyItem EXCEPT !.manufacturer = Some("Toyota"),
                      !.vehicle_name = Some(<<"a">>),
                      !.displacement_cc = [kind |-> "digits", n |-> 1500],
                      !.confidence = Some("High"),
                      !.sources = SourceList(<<Url("u1"), Url("u3")>>)]

ItemSplit ==
    [EmptyItem EXCEPT !.manufacturer = Some("Toyota"),
                      !.vehicle_name = Some(<<"a", Slash, "b">>),
                      !.car_name = Some(<<"b">>),
                      !.displacement_cc = [kind |-> "number", n |-> 14999],
                      !.confidence = Some("medium"),
                      !.notes = Note("shared platform")]

ItemAlt ==
    [EmptyItem EXCEPT !.vehicle_name = Some(<<>>),
                      !.model = Some(<<"b", FullWidthSlash, Space, "a">>),
                      !.displacement_cc = [kind |-> "text", n |-> 0],
                      !.confidence = Some("LOW"),
                      !.years = Some("1996-2007"),
                      !.sources = SourceList(<<NotAString, Url("u2"), Url("u2")>>)]

ItemHuge ==
    [ItemPlain EXCEPT !.displacement_cc = [kind |-> "infinity", n |-> 0]]

Dict(item) == [isDict |-> TRUE, item |-> item]
NonDict == [isDict |-> FALSE, item |-> EmptyItem]

Vehicles(elems) == [shape |-> "vehicles", items |-> elems, self |-> EmptyItem]
Object(item) == [shape |-> "object", items |-> <<>>, self |-> item]
Array(elems) == [shape |-> "array", items |-> elems, self |-> EmptyItem]
Scalar == [shape |-> "scalar", items |-> <<>>, self |-> EmptyItem]
Null == [shape |-> "null", items |-> <<>>, self |-> EmptyItem]

StructuredValues ==
    {Vehicles(<<>>), Vehicles(<<Dict(ItemPlain)>>),
     Vehicles(<<Dict(ItemSplit), NonDict, Dict(ItemAlt)>>), Vehicles(<<NonDict>>),
     Object(ItemPlain), Object(EmptyItem),
     Array(<<Dict(ItemAlt), Dict(ItemPlain)>>), Array(<<>>), Scalar, Null}

Json(v) == [t |-> "json", v |-> v]
Fence == [t |-> "fence", v |-> Null]
Lang == [t |-> "lang", v |-> Null]
Prose == [t |-> "prose", v |-> Null]

TextPart(text) == [structValue |-> None, jsonValue |-> None, text |-> text]
JsonPart(v) == [structValue |-> None, jsonValue |-> Some(v), text |-> <<>>]
StructPart(sv) == [structValue |-> Some(sv), jsonValue |-> None, text |-> <<>>]

PartLists ==
    {<<TextPart(<<Json(v)>>)>> : v \in StructuredValues}
    \cup {<<JsonPart(v)>> : v \in {Vehicles(<<Dict(ItemSplit)>>), Array(<<>>), Scalar, Null}}
    \cup {<<>>,
          <<TextPart(<<>>)>>,
          <<TextPart(<<Prose>>)>>,
          <<TextPart(<<Json(Vehicles(<<Dict(ItemPlain), Dict(ItemHuge)>>))>>)>>,
          <<TextPart(<<Json(Vehicles(<<Dict(ItemPlain)>>)), Prose>>)>>,
          <<TextPart(<<Fence, Lang, Json(Vehicles(<<>>)), Fence, Prose>>)>>,
          <<TextPart(<<Fence, Json(Object(ItemSplit))>>)>>,
          <<TextPart(<<Prose, Fence, Json(Vehicles(<<>>)), Fence>>)>>,
          <<TextPart(<<>>), TextPart(<<Json(Array(<<Dict(ItemPlain)>>))>>)>>,
          <<TextPart(<<Json(Vehicles(<<>>))>>), TextPart(<<Prose>>)>>,
          <<StructPart([hasFields |-> TRUE, obj |-> Vehicles(<<Dict(ItemAlt)>>)])>>,
          <<StructPart([hasFields |-> FALSE, obj |-> Null])>>,
          <<TextPart(<<Json(Vehicles(<<Dict(ItemPlain)>>))>>), JsonPart(Vehicles(<<>>))>>,
          <<JsonPart(Null), TextPart(<<Json(Vehicles(<<Dict(ItemPlain)>>))>>)>>,
          <<JsonPart(Null),
            StructPart([hasFields |-> TRUE, obj |-> Vehicles(<<Dict(ItemAlt)>>)])>>}

Web(uri, url) == [uri |-> uri, url |-> url]
NoMetadata == [groundingChunks |-> <<>>, groundingSupports |-> <<>>, citations |-> <<>>]

MetadataValues ==
    {NoMetadata,
     [groundingChunks |-> <<Web("u1", "")>>, groundingSupports |-> <<>>,
      citations |-> <<>>],
     [groundingChunks |-> <<Web("u2", "u1"), Web("", "u1"), Web("", "")>>,
      groundingSupports |-> << <<Web("u2", "")>>, <<Web("", "u3"), Web("u1", "")>> >>,
      citations |-> <<"u3", "", "u4">>]}

Candidate(parts, metadata) == [parts |-> parts, groundingMetadata |-> metadata]

UsageValues == {None, Some("promptTokenCount=10,candidatesTokenCount=5")}

KeyPartLists ==
    {<<TextPart(<<Json(Vehicles(<<>>))>>)>>,
     <<TextPart(<<Json(Vehicles(<<Dict(ItemSplit), NonDict, Dict(ItemAlt)>>))>>)>>,
     <<JsonPart(Array(<<Dict(ItemPlain)>>))>>}

Response(parts, metadata, usage) ==
    [candidates |-> <<Candidate(parts, metadata)>>, usageMetadata |-> usage]

\* The decoded bodies of a 200 response.
Responses ==
    {Response(parts, NoMetadata, None) : parts \in PartLists}
    \cup {Response(parts, metadata, usage) :
              parts \in KeyPartLists, metadata \in MetadataValues, usage \in UsageValues}
    \cup {[candidates |-> <<>>, usageMetadata |-> usage] : usage \in UsageValues}
    \cup {[candidates |-> <<Candidate(<<TextPart(<<Json(Vehicles(<<>>))>>)>>, NoMetadata),
                            Candidate(<<TextPart(<<Json(Object(ItemPlain))>>)>>, NoMetadata)>>,
           usageMetadata |-> None]}

ErrorBodies ==
    {<<>>, <<"Search Grounding is not supported">>,
     <<"invalid", "groundingMode">>, <<"quota exceeded">>,
     <<"search grounding is not supported", "for this project">>}

\* What one requests.post can produce: a transport failure, a 200 whose body
\* decodes to a response or is no JSON (json = None), or an error status.
Http(status_code, text, json) ==
    [transport_error |-> FALSE, status_code |-> status_code, text |-> text, json |-> json]

TransportFailure ==
    [transport_error |-> TRUE, status_code |-> 0, text |-> <<>>, json |-> None]

HttpOutcomes ==
    {TransportFailure}
    \cup {Http(200, <<>>, Some(r)) : r \in Responses}
    \cup {Http(200, <<>>, None)}
    \cup {Http(status, text, None) : status \in {400, 403, 500}, text \in ErrorBodies}

ModelCodeArgs ==
    {None, Some(<<>>), Some(<<Space>>), Some(<<"Z">>), Some(<<Space, "Z", Space>>),
     Some(<<"Z", Space, "Y">>)}

ModelNames == {"models/gemini-2.5-flash", "models/gemini-1.5-flash"}

ToolArgs ==
    {None, Some(<<>>), Some(<<RetrievalTool>>), Some(<<SearchTool>>),
     Some(<<SearchTool, RetrievalTool>>), Some(<<RetrievalTool, CodeTool, RetrievalTool>>),
     Some(<<TextTool, CodeTool>>), Some(<<BothTool, TextTool>>)}

----------------------------------------------------------------------------
(* The lookup call as a state machine. A call waits at each requests.post;
   everything between two posts is one step. *)

\* lookup: `not model_code or not model_code.strip()`
IsBlank(model_code) == model_code = None \/ Strip(Value(model_code)) = <<>>

IdleCall ==
    [model_code |-> None,       \* normalized_code
     payload |-> None,          \* the payload of the first request
     fallback_tools |-> <<>>,   \* the tool list built for the retry
     received |-> <<>>,         \* the responses of this call's requests
     response |-> None,         \* the decoded response dict
     outcome |-> "none",        \* "running", "returned" or the exception raised
     error |-> "",              \* the exception's message
     result |-> None]           \* the LookupResult returned

Raise(c, kind, msg) ==
    [c EXCEPT !.outcome = kind, !.error = msg]

Summary(http) ==
    [transport_error |-> http.transport_error, status_code |-> http.status_code,
     text |-> http.text]

\* _decode_response_json, then lookup from _parse_matches to the return
Finish(c, http, cfg) ==
    IF http.json = None
    THEN Raise(c, "GeminiCarLookupError", "Failed to decode JSON from Gemini response")
    ELSE LET response == Value(http.json)
             parsed == ParseMatches(response, Value(c.model_code))
         IN  IF parsed.error \in {"ValueError", "OverflowError"}
             THEN [Raise(c, parsed.error, "int() of displacement_cc")
                      EXCEPT !.response = Some(response)]
             ELSE IF parsed.error # ""
             THEN [Raise(c, "GeminiCarLookupError", parsed.error)
                      EXCEPT !.response = Some(response)]
             ELSE [c EXCEPT !.outcome = "returned",
                            !.response = Some(response),
                            !.result = Some(MakeResult(Value(c.model_code), parsed.matches,
                                                       response, cfg.include_raw_response))]

NoCallWaiting == \A d \in DOMAIN pc : pc[d] \notin {"wait1", "wait2"}

\* lookup(model_code), up to the first requests.post
StartLookup(c, model_code) ==
    /\ pc[c] \in {"idle", "done"}
    /\ IF IsBlank(model_code)
       THEN /\ pc' = [pc EXCEPT ![c] = "done"]
            /\ call' = [call EXCEPT ![c] =
                   Raise(IdleCall, "ValueError", "model_code must be a non-empty string")]
            /\ requests' = [requests EXCEPT ![c] = <<>>]
       ELSE LET normalized_code == Strip(Value(model_code))
                payload == BuildPayload(normalized_code, config, tools)
            IN  /\ pc' = [pc EXCEPT ![c] = "wait1"]
                /\ call' = [call EXCEPT ![c] =
                       [IdleCall EXCEPT !.model_code = Some(normalized_code),
                                        !.payload = Some(payload),
                                        !.outcome = "running"]]
                /\ requests' = [requests EXCEPT ![c] = <<payload>>]
    /\ UNCHANGED <<config, tools, uses_search_retrieval, fallback_done, fn_in, fn_out>>

\* lookup called while no other call on the service is under way
Lookup(c, model_code) ==
    /\ NoCallWaiting
    /\ StartLookup(c, model_code)

\* _call_api from the first response on, and the rest of lookup when no
\* fallback request is made
FirstResponse(c, http) ==
    /\ pc[c] = "wait1"
    /\ LET step == FirstResponseStep(http, uses_search_retrieval,
                                     config.allow_google_search_fallback)
           got == [call[c] EXCEPT !.received = Append(@, Summary(http))]
           fallback == BuildGoogleSearchFallback(Value(call[c].payload))
       IN  CASE step = "fallback" ->
                    /\ pc' = [pc EXCEPT ![c] = "wait2"]
                    /\ call' = [call EXCEPT ![c] =
                                   [got EXCEPT !.fallback_tools = fallback.tools,
                                               !.payload = Some(fallback.original)]]
                    /\ requests' = [requests EXCEPT ![c] = Append(@, fallback.payload)]
             [] step = "decode" ->
                    /\ pc' = [pc EXCEPT ![c] = "done"]
                    /\ call' = [call EXCEPT ![c] = Finish(got, http, config)]
                    /\ UNCHANGED requests
             [] step = "raise_transport" ->
                    /\ pc' = [pc EXCEPT ![c] = "done"]
                    /\ call' = [call EXCEPT ![c] =
                           Raise(got, "GeminiCarLookupError", "HTTP request to Gemini failed")]
                    /\ UNCHANGED requests
             [] step = "raise_rejected" ->
                    /\ pc' = [pc EXCEPT ![c] = "done"]
                    /\ call' = [call EXCEPT ![c] =
                           Raise(got, "GeminiCarLookupError",
                                 "Search Grounding is not supported for this API key/project")]
                    /\ UNCHANGED requests
             [] OTHER ->
                    /\ pc' = [pc EXCEPT ![c] = "done"]
                    /\ call' = [call EXCEPT ![c] =
                           Raise(got, "GeminiCarLookupError", "Gemini API error")]
                    /\ UNCHANGED requests
    /\ UNCHANGED <<config, tools, uses_search_retrieval, fallback_done, fn_in, fn_out>>

\* _call_api from the fallback response on, and the rest of lookup
FallbackResponse(c, http) ==
    /\ pc[c] = "wait2"
    /\ pc' = [pc EXCEPT ![c] = "done"]
    /\ UNCHANGED <<config, requests, fn_in, fn_out>>
    /\ LET got == [call[c] EXCEPT !.received = Append(@, Summary(http))]
       IN  IF http.transport_error
           THEN /\ call' = [call EXCEPT ![c] =
                       Raise(got, "GeminiCarLookupError", "HTTP request to Gemini failed")]
                /\ UNCHANGED <<tools, uses_search_retrieval, fallback_done>>
           ELSE /\ tools' = ToolsAfterFallback(http.status_code, call[c].fallback_tools, tools)
                /\ uses_search_retrieval' =
                       IF http.status_code = 200 THEN UsesSearchRetrieval(tools')
                       ELSE uses_search_retrieval
                /\ fallback_done' = (fallback_done \/ http.status_code = 200)
                /\ call' = [call EXCEPT ![c] =
                       IF http.status_code = 200 THEN Finish(got, http, config)
                       ELSE Raise(got, "GeminiCarLookupError", "Gemini API error")]

SeqCalls == {1}

\* __init__ with every combination of the arguments the claims depend on
Init ==
    /\ \E model_name \in ModelNames, include_raw \in BOOLEAN, allow \in BOOLEAN,
          tools_arg \in ToolArgs :
           /\ config = InitialConfig(model_name, include_raw, allow)
           /\ tools = InitialTools(tools_arg, model_name)
    /\ uses_search_retrieval = UsesSearchRetrieval(tools)
    /\ pc = [c \in SeqCalls |-> "idle"]
    /\ call = [c \in SeqCalls |-> IdleCall]
    /\ requests = [c \in SeqCalls |-> <<>>]
    /\ fallback_done = FALSE
    /\ fn_in = <<>>
    /\ fn_out = None

Next ==
    \/ \E c \in DOMAIN pc, model_code \in ModelCodeArgs : Lookup(c, model_code)
    \/ \E c \in DOMAIN pc, http \in HttpOutcomes : FirstResponse(c, http)
    \/ \E c \in DOMAIN pc, http \in HttpOutcomes : FallbackResponse(c, http)

Spec == Init /\ [][Next]_vars

----------------------------------------------------------------------------
(* Properties of the lookup call (specification Spec) *)

Returned(c) == call[c].outcome = "returned"
Failed(c) == call[c].outcome = "GeminiCarLookupError"
ResultOf(c) == Value(call[c].result)
Last(seq) == seq[Len(seq)]

ModernIn(tool_list) ==
    \E i \in 1..Len(tool_list) :
        tool_list[i].dict /\ "googleSearchRetrieval" \in tool_list[i].keys

LegacyIn(tool_list) ==
    \E i \in 1..Len(tool_list) :
        tool_list[i].dict /\ "googleSearch" \in tool_list[i].keys

IndicatorPhrases ==
    {"Search Grounding is not supported", "search grounding is not supported",
     "groundingMode", "groundingmode"}

\* The response is a 400 whose body holds an indicator phrase.
Rejection(r) ==
    /\ ~r.transport_error
    /\ r.status_code = 400
    /\ \E i \in 1..Len(r.text) : r.text[i] \in IndicatorPhrases

\* The response to a request that carried tool_list is a fallback-eligible 400.
Eligible(r, tool_list) == Rejection(r) /\ ModernIn(tool_list)

FirstTools(c) == requests[c][1].tools

\* C1: whenever lookup has returned a LookupResult, its matches list holds
\* at least one match, whatever calls were made on the service before.
C1_MatchesNeverEmpty ==
    \A c \in DOMAIN pc :
        Returned(c) =>
            /\ call[c].result # None
            /\ Len(ResultOf(c).matches) >= 1
            /\ ResultOf(c).model_code # <<>>

\* A lookup made after an earlier successful fallback returns for a response
\* that lists no vehicle.
C1_Witness ==
    \E c \in DOMAIN pc :
        /\ Returned(c)
        /\ fallback_done
        /\ Len(requests[c]) = 1
        /\ Len(ResultOf(c).matches) = 1
        /\ ResultOf(c).matches[1].vehicle_name = None

\* C2: a call posts at most two requests, the second only after the first
\* response has arrived and only when that response is a 400 with an
\* indicator phrase while the modern tool is active and fallback is permitted;
\* after the second response the call is over.
C2_AtMostTwoRequests ==
    \A c \in DOMAIN pc :
        /\ Len(requests[c]) <= 2
        /\ Len(call[c].received) <= Len(requests[c])
        /\ uses_search_retrieval = ModernIn(tools)
        /\ pc[c] = "wait1" => Len(requests[c]) = 1 /\ Len(call[c].received) = 0
        /\ pc[c] = "wait2" => Len(requests[c]) = 2 /\ Len(call[c].received) = 1
        /\ pc[c] = "done" => Len(call[c].received) = Len(requests[c])
        /\ Len(requests[c]) = 2 =>
               /\ Eligible(call[c].received[1], FirstTools(c))
               /\ config.allow_google_search_fallback

\* A call whose second response was itself an error has ended.
C2_Witness ==
    \E c \in DOMAIN pc :
        /\ pc[c] = "done"
        /\ Len(requests[c]) = 2
        /\ Rejection(call[c].received[2])

\* C3: once a fallback retry has returned 200 the tool list is the legacy
\* one; from then on no call posts a second request, each new call sends the
\* legacy tool list, and the first response ends the call, a 400 as a backend
\* error.
C3_LegacySticks ==
    [][/\ (~fallback_done /\ fallback_done') =>
              /\ ~ModernIn(tools') /\ LegacyIn(tools') /\ ~uses_search_retrieval'
       /\ fallback_done =>
              /\ fallback_done' /\ tools' = tools
              /\ ~ModernIn(tools) /\ LegacyIn(tools)
              /\ \A c \in DOMAIN pc :
                     /\ Len(requests'[c]) = 2 => requests'[c] = requests[c]
                     /\ (requests'[c] # requests[c] /\ requests'[c] # <<>>) =>
                            requests'[c] = <<[Value(call'[c].payload) EXCEPT !.tools = tools]>>
                     /\ pc[c] = "wait1" =>
                            /\ pc'[c] = "done"
                            /\ Last(call'[c].received).status_code = 400 =>
                                   /\ Failed(c)'
                                   /\ call'[c].error = "Gemini API error"
                                   /\ call'[c].result = None]_vars

\* After a successful fallback, a later call is answered 400 with an
\* indicator phrase and fails after its only request.
C3_Witness ==
    \E c \in DOMAIN pc :
        /\ fallback_done
        /\ pc[c] = "done"
        /\ Len(requests[c]) = 1
        /\ Rejection(call[c].received[1])
        /\ Failed(c)

\* C4: a fallback-eligible 400 with fallback not permitted ends the call with
\* the backend-rejected error after its only request, the tool list being the
\* one the call started with.
C4_FallbackDenied ==
    \A c \in DOMAIN pc :
        (/\ Len(call[c].received) >= 1
         /\ Eligible(call[c].received[1], FirstTools(c))
         /\ ~config.allow_google_search_fallback) =>
            /\ pc[c] = "done"
            /\ Failed(c)
            /\ call[c].error = "Search Grounding is not supported for this API key/project"
            /\ call[c].result = None
            /\ Len(requests[c]) = 1
            /\ tools = FirstTools(c)

C4_Witness ==
    \E c \in DOMAIN pc :
        /\ Len(call[c].received) = 1
        /\ Eligible(call[c].received[1], FirstTools(c))
        /\ ~config.allow_google_search_fallback
        /\ pc[c] = "done"

\* A first response that ends the call with an error: a transport failure, a
\* status other than 200 and 400, a 400 without indicator phrase, a 400
\* while the modern tool is not active.
TerminalFirst(r, tool_list) ==
    \/ r.transport_error
    \/ r.status_code \notin {200, 400}
    \/ r.status_code = 400 /\ ~Rejection(r)
    \/ r.status_code = 400 /\ ~ModernIn(tool_list)

\* C5: a blank model code raises before any request; a terminal first
\* response, and a fallback response that is a transport failure or has a
\* status other than 200, end the call with an error, no further request and
\* no LookupResult.
C5_FailuresAreTerminal ==
    \A c \in DOMAIN pc :
        /\ (pc[c] # "idle" /\ call[c].model_code = None) =>
               /\ call[c].outcome = "ValueError"
               /\ requests[c] = <<>> /\ call[c].received = <<>>
               /\ call[c].result = None
        /\ call[c].model_code # None =>
               /\ Value(call[c].model_code) # <<>>
               /\ Head(Value(call[c].model_code)) # Space
               /\ Last(Value(call[c].model_code)) # Space
               /\ Len(requests[c]) >= 1
        /\ (Len(call[c].received) >= 1
              /\ TerminalFirst(call[c].received[1], FirstTools(c))) =>
               /\ pc[c] = "done" /\ Failed(c)
               /\ call[c].result = None
               /\ Len(requests[c]) = 1
        /\ (Len(call[c].received) = 2
              /\ (call[c].received[2].transport_error
                    \/ call[c].received[2].status_code # 200)) =>
               /\ pc[c] = "done" /\ Failed(c)
               /\ call[c].result = None
               /\ Len(requests[c]) = 2

\* A 400 with an indicator phrase, received while the modern tool is not
\* active and fallback is permitted, has ended the call.
C5_Witness ==
    \E c \in DOMAIN pc :
        /\ Len(call[c].received) = 1
        /\ Rejection(call[c].received[1])
        /\ ~ModernIn(FirstTools(c))
        /\ config.allow_google_search_fallback
        /\ ~fallback_done
        /\ Failed(c)

\* C6: the tool list (and the flag cached from it) changes only in the step
\* that receives a 200 answer to a fallback request; no step changes another
\* configuration field.
C6_ToolsChangeOnlyOnFallback ==
    [][/\ config' = config
       /\ (tools' # tools \/ uses_search_retrieval' # uses_search_retrieval) =>
              \E c \in DOMAIN pc :
                  /\ pc[c] = "wait2" /\ pc'[c] = "done"
                  /\ Len(call'[c].received) = 2
                  /\ ~Last(call'[c].received).transport_error
                  /\ Last(call'[c].received).status_code = 200]_vars

\* A call has replaced the tool list it started with.
C6_Witness ==
    \E c \in DOMAIN pc :
        /\ pc[c] = "done"
        /\ Len(call[c].received) = 2
        /\ call[c].received[2].status_code = 200
        /\ tools # FirstTools(c)

\* C7 as stated: without the opt-in the result carries neither the raw
\* response nor usage metadata.
C7_UsageOnlyOnRequest ==
    \A c \in DOMAIN pc :
        Returned(c) =>
            /\ ResultOf(c).raw_response # None => config.include_raw_response
            /\ ~config.include_raw_response => ResultOf(c).usage_metadata = None

\* C7 amended: the raw response is carried exactly when raw-response
\* inclusion is configured; usage_metadata is always the response's
\* usageMetadata, null only when the response has none.
C7_RawOnRequestUsageAlways ==
    \A c \in DOMAIN pc :
        Returned(c) =>
            /\ ResultOf(c).raw_response =
                   (IF config.include_raw_response THEN call[c].response ELSE None)
            /\ ResultOf(c).usage_metadata = Value(call[c].response).usageMetadata

C7_Witness ==
    \E c \in DOMAIN pc :
        /\ Returned(c)
        /\ ~config.include_raw_response
        /\ ResultOf(c).raw_response = None
        /\ ResultOf(c).usage_metadata # None

\* C8: when parsing and name expansion leave no match, the result holds
\* exactly one match with manufacturer, vehicle_name and displacement_cc
\* unset, confidence "low", a note naming the model code, and the
\* candidate-level default sources; otherwise the result is the expanded list
\* and holds no synthesized match.
C8_PlaceholderPolicy ==
    \A c \in DOMAIN pc :
        Returned(c) =>
            LET built == BuildAndExpand(Value(call[c].response))
                matches == ResultOf(c).matches
            IN  /\ built.error = ""
                /\ built.matches = <<>> =>
                       /\ Len(matches) = 1
                       /\ matches[1].manufacturer = None
                       /\ matches[1].vehicle_name = None
                       /\ matches[1].displacement_cc = None
                       /\ matches[1].confidence = Some("low")
                       /\ matches[1].notes # None
                       /\ Value(matches[1].notes).code = ResultOf(c).model_code
                       /\ matches[1].sources =
                              ExtractGroundedSources(
                                  Value(call[c].response).candidates[1].groundingMetadata)
                /\ built.matches # <<>> =>
                       /\ matches = built.matches
                       /\ \A i \in 1..Len(matches) :
                              matches[i].notes # None =>
                                  Value(matches[i].notes).text # NoDataNote

\* A response with grounding sources and no vehicle has been answered by the
\* placeholder alone.
C8_Witness ==
    \E c \in DOMAIN pc :
        /\ Returned(c)
        /\ BuildAndExpand(Value(call[c].response)).matches = <<>>
        /\ Len(ResultOf(c).matches) = 1
        /\ ResultOf(c).matches[1].sources # <<>>

\* A tool entry that is a dict with the key googleSearchRetrieval.
IsModernEntry(tool) == tool.dict /\ "googleSearchRetrieval" \in tool.keys

IsOtherEntry(tool) == ~IsModernEntry(tool)

\* C12: the retried payload's tools are the original tools without the
\* googleSearchRetrieval entries, the others in their order, with one
\* googleSearch entry appended exactly when none is among the others; the
\* retried payload differs from the original in the tools only; the original
\* payload and the service's tool list are left as they were.
C12_FallbackPayload ==
    [][\A c \in DOMAIN pc :
          (pc[c] = "wait1" /\ pc'[c] = "wait2") =>
              LET original == requests[c][1]
                  retried == requests'[c][2]
                  others == SelectSeq(original.tools, IsOtherEntry)
              IN  /\ retried.tools =
                         IF LegacyIn(others) THEN others ELSE Append(others, SearchTool)
                  /\ [retried EXCEPT !.tools = original.tools] = original
                  /\ requests'[c][1] = original
                  /\ call'[c].payload = Some(original)
                  /\ call'[c].fallback_tools = retried.tools
                  /\ tools' = tools]_vars

C12_Witness ==
    \E c \in DOMAIN pc :
        /\ pc[c] = "wait2"
        /\ requests[c][1].tools = <<RetrievalTool, CodeTool, RetrievalTool>>
        /\ requests[c][2].tools = <<CodeTool, SearchTool>>
        /\ tools = <<RetrievalTool, CodeTool, RetrievalTool>>


\* What a finished call shows of the normalizer: the message (or, for an
\* exception of another type, its type) and the matches returned.
Shown(c) ==
    IF Returned(c) THEN [error |-> "", matches |-> ResultOf(c).matches]
    ELSE [error |-> IF Failed(c) THEN call[c].error ELSE call[c].outcome,
          matches |-> <<>>]

\* The normalizer's outcome for the candidate `primary` alone with its parts
\* replaced by one text part holding `text`.
ParsedFrom(primary, text, model_code) ==
    LET parsed == ParseMatches(
                      [candidates |-> <<[primary EXCEPT !.parts = <<TextPart(text)>>]>>,
                       usageMetadata |-> None], model_code)
    IN  [error |-> parsed.error, matches |-> parsed.matches]

IsStructuredPart(part) == part.structValue # None \/ part.jsonValue # None

\* The value a structured part holds.
StructuredValueOf(part) ==
    IF part.structValue # None THEN ConvertStructValue(Value(part.structValue))
    ELSE Value(part.jsonValue)

RECURSIVE JoinedText(_)
JoinedText(parts) ==
    IF parts = <<>> THEN <<>> ELSE Head(parts).text \o JoinedText(Tail(parts))

\* C13: no candidates gives the no-candidates error; else a structured part
\* of the first candidate is used whatever the text parts hold; else the text
\* parts are joined in order and parsed; a candidate with neither fails with
\* the empty-candidate error; candidates after the first change nothing.
C13_NormalizerOrder ==
    \A c \in DOMAIN pc :
        (pc[c] = "done" /\ call[c].response # None) =>
            LET response == Value(call[c].response)
                code == Value(call[c].model_code)
                primary == response.candidates[1]
                typed == SelectSeq(primary.parts, IsStructuredPart)
            IN  IF response.candidates = <<>>
                THEN Shown(c) = [error |-> "Gemini returned no candidates",
                                 matches |-> <<>>]
                ELSE IF typed # <<>>
                THEN Shown(c) = ParsedFrom(primary, <<Json(StructuredValueOf(typed[1]))>>,
                                           code)
                ELSE IF JoinedText(primary.parts) # <<>>
                THEN Shown(c) = ParsedFrom(primary, JoinedText(primary.parts), code)
                ELSE Shown(c) = [error |-> "Gemini candidate missing text content",
                                 matches |-> <<>>]

----------------------------------------------------------------------------
(* Name expansion on its own (specification SpecExpand) *)

\* The service as constructed by default; the pure-function specifications
\* leave it alone.
ServiceAtRest ==
    /\ config = InitialConfig("models/gemini-2.5-flash", FALSE, FALSE)
    /\ tools = InitialTools(None, "models/gemini-2.5-flash")
    /\ uses_search_retrieval = UsesSearchRetrieval(tools)
    /\ pc = [c \in SeqCalls |-> "idle"]
    /\ call = [c \in SeqCalls |-> IdleCall]
    /\ requests = [c \in SeqCalls |-> <<>>]
    /\ fallback_done = FALSE

ServiceUnchanged ==
    UNCHANGED <<config, tools, uses_search_retrieval, pc, call, requests, fallback_done>>

NameChars == {"a", "b", Space, Slash, FullWidthSlash}

Names == {None} \cup {Some(s) : s \in AllSeqs(NameChars, MaxNameLen)}

\* A match as _build_match leaves it, with the given name and manufacturer.
MatchNamed(name, manufacturer) ==
    [manufacturer |-> Some(manufacturer), vehicle_name |-> name,
     displacement_cc |-> Some(1500), grade_or_variant |-> None, years |-> None,
     confidence |-> Some("high"), notes |-> None, sources |-> <<"u1">>]

Companions == {MatchNamed(Some(<<"a", Slash, "b">>), "Daihatsu")}

\* Match lists of at most MaxMatches matches: one match of any name, among
\* companions.
ExpandInputs ==
    {<<>>} \cup
    {around[1] \o <<MatchNamed(name, "Toyota")>> \o around[2] :
         name \in Names,
         around \in {pair \in AllSeqs(Companions, MaxMatches - 1)
                                  \X AllSeqs(Companions, MaxMatches - 1) :
                         Len(pair[1]) + Len(pair[2]) <= MaxMatches - 1}}

InitExpand ==
    /\ ServiceAtRest
    /\ fn_in \in ExpandInputs
    /\ fn_out = None

\* matches = self._expand_vehicle_names(matches)
ApplyExpand ==
    /\ fn_out = None
    /\ fn_out' = Some(ExpandVehicleNames(fn_in))
    /\ fn_in' = fn_in
    /\ ServiceUnchanged

NextExpand == ApplyExpand

SpecExpand == InitExpand /\ [][NextExpand]_vars

\* The segments of a name for one delimiter, stated by positions: the text
\* between neighbouring delimiters, trimmed, the empty ones dropped.
Trimmed(s) ==
    LET solid == {i \in 1..Len(s) : s[i] # Space}
    IN  IF solid = {} THEN <<>>
        ELSE SubSeq(s, CHOOSE i \in solid : \A j \in solid : i <= j,
                       CHOOSE i \in solid : \A j \in solid : i >= j)

Segments(s, delimiter) ==
    LET cuts == {i \in 1..Len(s) : s[i] = delimiter}
        starts == {0} \cup cuts
        stop(p) == CHOOSE q \in cuts \cup {Len(s) + 1} :
                       q > p /\ \A r \in cuts : r > p => q <= r
        piece(p) == Trimmed(SubSeq(s, p + 1, stop(p) - 1))
        kept == {p \in starts : piece(p) # <<>>}
        nth(k) == CHOOSE p \in kept : Cardinality({q \in kept : q < p}) = k - 1
    IN  [k \in 1..Cardinality(kept) |-> piece(nth(k))]

\* The names a match stands for: the segments for "/" when there are two or
\* more, else those for the full-width slash when there are two or more, else
\* none (the match is not split).
SegmentNames(match) ==
    IF match.vehicle_name = None THEN <<>>
    ELSE LET name == Value(match.vehicle_name)
         IN  IF Len(Segments(name, Slash)) >= 2 THEN Segments(name, Slash)
             ELSE IF Len(Segments(name, FullWidthSlash)) >= 2
                  THEN Segments(name, FullWidthSlash)
             ELSE <<>>

CountFor(match) == IF SegmentNames(match) = <<>> THEN 1 ELSE Len(SegmentNames(match))

RECURSIVE CountBefore(_, _)
CountBefore(matches, i) ==
    IF i <= 1 THEN 0 ELSE CountBefore(matches, i - 1) + CountFor(matches[i - 1])

\* C9: the output holds, for each input match in order, either the match
\* itself (no name, no delimiter, or fewer than two non-empty trimmed
\* segments) or one copy per segment, in segment order, differing from the
\* match in vehicle_name only; its length is the sum of the segment counts.
\* A name is split on one delimiter: "/" when that gives two or more
\* segments, else the full-width slash.
C9_NameExpansion ==
    fn_out # None =>
        LET out == Value(fn_out)
        IN  /\ Len(out) = CountBefore(fn_in, Len(fn_in) + 1)
            /\ \A i \in 1..Len(fn_in) :
                   LET names == SegmentNames(fn_in[i])
                       at == CountBefore(fn_in, i)
                   IN  IF names = <<>>
                       THEN out[at + 1] = fn_in[i]
                       ELSE \A k \in 1..Len(names) :
                                out[at + k] = [fn_in[i] EXCEPT !.vehicle_name = Some(names[k])]

\* A match named with a full-width slash, with padded segments, has been
\* expanded in front of a companion that is expanded too.
C9_Witness ==
    /\ fn_out # None
    /\ Len(fn_in) = 2
    /\ fn_in[1].vehicle_name = Some(<<"b", Space, FullWidthSlash, "a">>)
    /\ Len(Value(fn_out)) = 4
    /\ Value(fn_out)[1].vehicle_name = Some(<<"b">>)
    /\ Value(fn_out)[2].vehicle_name = Some(<<"a">>)

----------------------------------------------------------------------------
(* Sources of the matches of one response (specification SpecSources) *)

ChunkValues == {Web("u1", ""), Web("", "u2"), Web("u2", "u1"), Web("", "")}

\* groundingSupports and citations, absent or present
SupportAndCitationValues ==
    {[supports |-> <<>>, citations |-> <<>>],
     [supports |-> << <<Web("u3", "")>>, <<Web("", "u1"), Web("u2", "")>> >>,
      citations |-> <<"u2", "", "u4", "u2">>]}

SourcesMetadata ==
    {[groundingChunks |-> chunks, groundingSupports |-> rest.supports,
      citations |-> rest.citations] :
         chunks \in AllSeqs(ChunkValues, MaxChunks), rest \in SupportAndCitationValues}

ExtraValues == {Url("u1"), Url("u5"), NotAString}

ExtraSources ==
    {[isList |-> FALSE, elems |-> <<>>]}
    \cup {SourceList(elems) : elems \in AllSeqs(ExtraValues, MaxExtra)}

\* Responses whose candidate lists one vehicle, plainly named or with a
\* composite name, or no vehicle at all.
SourcesInputs ==
    {Response(<<TextPart(<<Json(Vehicles(<<Dict([item EXCEPT !.sources = extra])>>))>>)>>,
              metadata, None) :
         item \in {ItemPlain, ItemSplit}, extra \in ExtraSources,
         metadata \in SourcesMetadata}
    \cup {Response(<<TextPart(<<Json(Vehicles(<<>>))>>)>>, metadata, None) :
              metadata \in SourcesMetadata}

InitSources ==
    /\ ServiceAtRest
    /\ fn_in \in SourcesInputs
    /\ fn_out = None

\* matches = self._parse_matches(response, normalized_code)
ApplyParse ==
    /\ fn_out = None
    /\ fn_out' = Some(ParseMatches(fn_in, <<"Z">>))
    /\ fn_in' = fn_in
    /\ ServiceUnchanged

NextSources == ApplyParse

SpecSources == InitSources /\ [][NextSources]_vars

\* The elements of seq at the positions in keep, in order.
Pick(seq, keep) ==
    [k \in 1..Cardinality(keep) |->
         seq[CHOOSE p \in keep : Cardinality({q \in keep : q < p}) = k - 1]]

FirstOccurrences(seq) ==
    Pick(seq, {i \in 1..Len(seq) : \A j \in 1..(i - 1) : seq[j] # seq[i]})

\* Every URL of the grounding metadata: chunks, then supports, then citations.
GroundedUrls(metadata) ==
    WebUrls(metadata.groundingChunks)
        \o SupportUrls(metadata.groundingSupports)
        \o CitationUrls(metadata.citations)

InputMetadata == fn_in.candidates[1].groundingMetadata
InputElems == fn_in.candidates[1].parts[1].text[1].v.items

\* The string entries of the input vehicle's `sources`, in order.
InputExtra ==
    IF InputElems = <<>> \/ ~InputElems[1].item.sources.isList THEN <<>>
    ELSE LET elems == InputElems[1].item.sources.elems
         IN  [k \in 1..Len(Pick(elems, {i \in 1..Len(elems) : elems[i].str})) |->
                  Pick(elems, {i \in 1..Len(elems) : elems[i].str})[k].v]

\* C10: the sources of every match have no duplicate, start with the
\* first occurrences of the grounded URLs (chunks, supports, citations) and
\* go on with the first occurrences of the vehicle's string sources that are
\* not among them; appending a URL already present changes nothing.
C10_SourcesOrderedUnique ==
    fn_out # None =>
        LET defaults == FirstOccurrences(GroundedUrls(InputMetadata))
            fresh == Pick(InputExtra,
                          {i \in 1..Len(InputExtra) :
                               \A j \in 1..Len(defaults) : defaults[j] # InputExtra[i]})
            matches == Value(fn_out).matches
        IN  /\ Value(fn_out).error = ""
            /\ Len(matches) >= 1
            /\ \A m \in 1..Len(matches) :
                   LET sources == matches[m].sources
                   IN  /\ \A i, j \in 1..Len(sources) : i # j => sources[i] # sources[j]
                       /\ sources = defaults \o FirstOccurrences(fresh)
                       /\ \A i \in 1..Len(sources) :
                              AppendExtra(sources, <<Url(sources[i])>>) = sources

\* A vehicle whose sources repeat a grounded URL and add new ones, under
\* metadata that itself repeats a URL.
C10_Witness ==
    /\ fn_out # None
    /\ Len(Value(fn_out).matches) = 2
    /\ Len(GroundedUrls(InputMetadata)) > Len(FirstOccurrences(GroundedUrls(InputMetadata)))
    /\ InputExtra = <<"u1", "u5">>
    /\ Value(fn_out).matches[2].sources = <<"u2", "u1", "u3", "u4", "u5">>

----------------------------------------------------------------------------
(* Building one match (specification SpecMatch) *)

DisplacementValues ==
    {[kind |-> "number", n |-> n] : n \in -MaxTenths..MaxTenths}
    \cup {[kind |-> "digits", n |-> n] : n \in 0..MaxTenths}
    \cup {[kind |-> "bool", n |-> n] : n \in {0, 1}}
    \cup {[kind |-> k, n |-> 0] :
              k \in {"superscript", "text", "nan", "infinity", "none", "other"}}

MatchInputs ==
    {[item EXCEPT !.displacement_cc = d] :
         item \in {ItemPlain, EmptyItem}, d \in DisplacementValues}

InitMatch ==
    /\ ServiceAtRest
    /\ fn_in \in MatchInputs
    /\ fn_out = None

\* self._build_match(item, sources)
ApplyBuild ==
    /\ fn_out = None
    /\ fn_out' = Some(BuildMatchOutcome(fn_in, <<"u1">>))
    /\ fn_in' = fn_in
    /\ ServiceUnchanged

NextMatch == ApplyBuild

SpecMatch == InitMatch /\ [][NextMatch]_vars

\* The integer part of n tenths.
WholePart(n) ==
    CHOOSE t \in -MaxTenths..MaxTenths :
        IF n >= 0 THEN 10 * t <= n /\ n < 10 * t + 10
        ELSE 10 * t >= n /\ n > 10 * t - 10

\* C11: building a match raises nothing and leaves displacement_cc unset or
\* a non-negative integer: the value of a digit-only string, the truncation
\* of a number, unset for a non-digit string, a missing key or another type.
C11_DisplacementCoercion ==
    fn_out # None =>
        LET raw == fn_in.displacement_cc
            got == Value(fn_out).match.displacement_cc
        IN  /\ Value(fn_out).raised = ""
            /\ got = None \/ Value(got) >= 0
            /\ raw.kind = "digits" => got = Some(raw.n)
            /\ raw.kind = "number" => got = Some(WholePart(raw.n))
            /\ raw.kind \in {"text", "none", "other"} => got = None

----------------------------------------------------------------------------
(* Shape normalization (specification SpecShape) *)

\* A parsed JSON value: its type; for an object whether it has the key
\* `vehicles` and whether that holds a list, the list's elements, and the
\* object read as one vehicle; for an array its elements.
JsonValue(type, hasVehicles, vehiclesIsList, elems, self) ==
    [type |-> type, hasVehicles |-> hasVehicles, vehiclesIsList |-> vehiclesIsList,
     elems |-> elems, self |-> self]

ElemLists ==
    UNION {[1..n -> {Dict(ItemPlain), Dict(ItemAlt), NonDict}] : n \in 0..MaxElems}

JsonValues ==
    {JsonValue("object", TRUE, TRUE, elems, EmptyItem) : elems \in ElemLists}
    \cup {JsonValue("object", TRUE, FALSE, <<>>, item) : item \in {ItemPlain, EmptyItem}}
    \cup {JsonValue("object", FALSE, FALSE, <<>>, item) : item \in {ItemPlain, EmptyItem}}
    \cup {JsonValue("array", FALSE, FALSE, elems, EmptyItem) : elems \in ElemLists}
    \cup {JsonValue(type, FALSE, FALSE, <<>>, EmptyItem) :
              type \in {"string", "number", "boolean", "null"}}

\* The tests of _extract_vehicle_payloads on the value's type.
ShapeOf(v) ==
    IF v.type = "object"
    THEN (IF v.hasVehicles /\ v.vehiclesIsList THEN Vehicles(v.elems) ELSE Object(v.self))
    ELSE IF v.type = "array" THEN Array(v.elems)
    ELSE IF v.type = "null" THEN Null
    ELSE Scalar

InitShape ==
    /\ ServiceAtRest
    /\ fn_in \in JsonValues
    /\ fn_out = None

\* _parse_matches on a response whose one text part holds the value
ApplyShape ==
    /\ fn_out = None
    /\ fn_out' = Some([payloads |-> ExtractVehiclePayloads(ShapeOf(fn_in)),
                       parsed |-> ParseMatches(
                                      Response(<<TextPart(<<Json(ShapeOf(fn_in))>>)>>,
                                               NoMetadata, None), <<"Z">>)])
    /\ fn_in' = fn_in
    /\ ServiceUnchanged

NextShape == ApplyShape

SpecShape == InitShape /\ [][NextShape]_vars

IsVehicleObject(elem) == elem.isDict

\* The vehicle objects among elems, in order.
VehicleObjects(elems) ==
    LET kept == SelectSeq(elems, IsVehicleObject)
    IN  [i \in 1..Len(kept) |-> kept[i].item]

\* C14: an object with a `vehicles` array yields that array's vehicle
\* objects, any other object yields itself as the one vehicle, an array
\* yields its vehicle objects; a string, number, boolean or null fails with
\* the unexpected-shape error and the lookup yields no matches.
C14_ShapeNormalization ==
    fn_out # None =>
        LET payloads == Value(fn_out).payloads
            parsed == Value(fn_out).parsed
        IN  CASE fn_in.type = "object" /\ fn_in.hasVehicles /\ fn_in.vehiclesIsList ->
                     /\ payloads = [ok |-> TRUE, items |-> VehicleObjects(fn_in.elems)]
                     /\ parsed.error = ""
              [] fn_in.type = "object" /\ ~(fn_in.hasVehicles /\ fn_in.vehiclesIsList) ->
                     /\ payloads = [ok |-> TRUE, items |-> <<fn_in.self>>]
                     /\ parsed.error = ""
              [] fn_in.type = "array" ->
                     /\ payloads = [ok |-> TRUE, items |-> VehicleObjects(fn_in.elems)]
                     /\ parsed.error = ""
              [] OTHER ->
                     /\ payloads = [ok |-> FALSE, items |-> <<>>]
                     /\ parsed.error = "Unexpected JSON structure"
                     /\ parsed.matches = <<>>

\* The value null has been normalized.
C14_Witness ==
    /\ fn_out # None
    /\ fn_in.type = "null"
    /\ Value(fn_out).parsed.error = "Unexpected JSON structure"

----------------------------------------------------------------------------
(* Two lookups on one service at the same time (specification SpecRace).
   The calls run in two threads; a thread can be preempted while it waits in
   requests.post. The backend refuses the modern tool and accepts the legacy
   one. *)

RaceCalls == {1, 2}

RaceToolArgs ==
    {None, Some(<<SearchTool, RetrievalTool>>),
     Some(<<RetrievalTool, CodeTool, RetrievalTool>>)}

RaceCodes == {Some(<<"Z">>), Some(<<"Z", Space, "Y">>)}

RaceResponses ==
    {Response(<<TextPart(<<Json(Vehicles(<<>>))>>)>>, NoMetadata, None),
     Response(<<JsonPart(Array(<<Dict(ItemPlain)>>))>>, NoMetadata,
              Some("promptTokenCount=10,candidatesTokenCount=5"))}

\* What the backend answers to a request with this payload.
BackendAnswers(payload) ==
    IF UsesSearchRetrieval(payload.tools)
    THEN {Http(400, text, None) :
              text \in {<<"Search Grounding is not supported">>,
                        <<"invalid", "groundingMode">>}}
    ELSE {Http(200, <<>>, Some(r)) : r \in RaceResponses}

InitRace ==
    /\ \E model_name \in ModelNames, include_raw \in BOOLEAN,
          tools_arg \in RaceToolArgs :
           /\ config = InitialConfig(model_name, include_raw, TRUE)
           /\ tools = InitialTools(tools_arg, model_name)
    /\ uses_search_retrieval = UsesSearchRetrieval(tools)
    /\ pc = [c \in RaceCalls |-> "idle"]
    /\ call = [c \in RaceCalls |-> IdleCall]
    /\ requests = [c \in RaceCalls |-> <<>>]
    /\ fallback_done = FALSE
    /\ fn_in = <<>>
    /\ fn_out = None

\* Each thread calls lookup once.
RaceLookup(c, model_code) ==
    /\ pc[c] = "idle"
    /\ StartLookup(c, model_code)

RaceFirstResponse(c) ==
    /\ pc[c] = "wait1"
    /\ \E http \in BackendAnswers(requests[c][1]) : FirstResponse(c, http)

RaceFallbackResponse(c) ==
    /\ pc[c] = "wait2"
    /\ \E http \in BackendAnswers(requests[c][2]) : FallbackResponse(c, http)

NextRace ==
    \/ \E c \in RaceCalls, model_code \in RaceCodes : RaceLookup(c, model_code)
    \/ \E c \in RaceCalls : RaceFirstResponse(c)
    \/ \E c \in RaceCalls : RaceFallbackResponse(c)

SpecRace == InitRace /\ [][NextRace]_vars

\* C15: when both calls are over, both have returned a LookupResult, each
\* has posted at most two requests, and the service's tool list holds the
\* legacy tool and no modern one.
C15_ConcurrentLookups ==
    (\A c \in RaceCalls : pc[c] = "done") =>
        /\ \A c \in RaceCalls : Returned(c) /\ Len(requests[c]) <= 2
        /\ ~ModernIn(tools)
        /\ LegacyIn(tools)


====
